---- MODULE Spec2Model ----
(***************************************************************************)
(* Periodic functions of wavegen (src/src/periodic_functions.rs): the      *)
(* builders dc_bias, sawtooth, sine, square and custom, the builder macros *)
(* dc_bias!, sawtooth!, sine! and square!, the two math backends selected  *)
(* by the cargo features std and libm, and the invocation of the built     *)
(* closures by concurrent evaluators.                                      *)
(*                                                                         *)
(* An f64 is modelled as NaN, +Inf, -Inf or a finite dyadic m * 2^e with m *)
(* odd (or m = 0, e = 0).  Every finite f64 is such a dyadic; the model's  *)
(* arithmetic on them is the IEEE-754 result whenever the exact result has *)
(* a mantissa of fewer than 31 bits (then it is exact in f64 as well), or  *)
(* when one operand of a sum lies below half an ulp of the other (then     *)
(* round-to-nearest returns the larger one).  The inputs are drawn so that *)
(* one of the two cases always applies.  The sign of zero is not modelled. *)
(***************************************************************************)
EXTENDS Integers, Sequences, FiniteSets

VARIABLES features, fns, origin, pc, call, ret

vars == <<features, fns, origin, pc, call, ret>>

(***************************************************************************)
(* f64 values                                                              *)
(***************************************************************************)
MantissaBits == 53

I32Max == 2147483647

I32Min == (-2147483647) - 1

NaN == [k |-> "nan"]

PosInf == [k |-> "inf", s |-> 1]

NegInf == [k |-> "inf", s |-> -1]

RECURSIVE Norm(_, _)
Norm(m, e) ==
  IF m = 0 THEN [k |-> "fin", m |-> 0, e |-> 0]
  ELSE IF m % 2 = 0 THEN Norm(m \div 2, e + 1)
  ELSE [k |-> "fin", m |-> m, e |-> e]

Dy(m, e) == Norm(m, e)

Zero == Dy(0, 0)

One == Dy(1, 0)

MinusOne == Dy(-1, 0)

Two == Dy(2, 0)

Half == Dy(1, -1)

Quarter == Dy(1, -2)

IsNaN(x) == x.k = "nan"

IsInf(x) == x.k = "inf"

IsFin(x) == x.k = "fin"

Abs(n) == IF n < 0 THEN -n ELSE n

Sign(n) == IF n < 0 THEN -1 ELSE IF n > 0 THEN 1 ELSE 0

Pow2(n) == 2 ^ n

RECURSIVE Bits(_)
Bits(n) == IF n = 0 THEN 0 ELSE 1 + Bits(n \div 2)

\* |x| < 2^TopBit(x) for a finite nonzero x
TopBit(x) == Bits(Abs(x.m)) + x.e

FSign(x) == IF IsInf(x) THEN x.s ELSE Sign(x.m)

FNeg(x) ==
  IF IsNaN(x) THEN NaN
  ELSE IF IsInf(x) THEN [k |-> "inf", s |-> -x.s]
  ELSE Dy(-x.m, x.e)

AddFin(x, y) ==
  IF x.m = 0 THEN y
  ELSE IF y.m = 0 THEN x
  ELSE IF TopBit(y) + MantissaBits + 2 <= TopBit(x) THEN x
  ELSE IF TopBit(x) + MantissaBits + 2 <= TopBit(y) THEN y
  ELSE LET e == IF x.e < y.e THEN x.e ELSE y.e
       IN  Norm(x.m * Pow2(x.e - e) + y.m * Pow2(y.e - e), e)

FAdd(x, y) ==
  IF IsNaN(x) \/ IsNaN(y) THEN NaN
  ELSE IF IsInf(x) /\ IsInf(y) THEN (IF x.s = y.s THEN x ELSE NaN)
  ELSE IF IsInf(x) THEN x
  ELSE IF IsInf(y) THEN y
  ELSE AddFin(x, y)

FSub(x, y) == FAdd(x, FNeg(y))

FMul(x, y) ==
  IF IsNaN(x) \/ IsNaN(y) THEN NaN
  ELSE IF IsInf(x) \/ IsInf(y)
       THEN (IF FSign(x) * FSign(y) = 0 THEN NaN
             ELSE [k |-> "inf", s |-> FSign(x) * FSign(y)])
  ELSE Norm(x.m * y.m, x.e + y.e)

\* x <= y; false when either is NaN
FLe(x, y) ==
  /\ ~IsNaN(x)
  /\ ~IsNaN(y)
  /\ FSign(FSub(y, x)) >= 0
  /\ ~IsNaN(FSub(y, x))

\* f64::floor, libm::floor
Floor(x) ==
  IF ~IsFin(x) THEN x
  ELSE IF x.e >= 0 THEN x
  ELSE Dy(x.m \div Pow2(-x.e), 0)

\* f64::trunc: rounds toward zero
Trunc(x) ==
  IF ~IsFin(x) THEN x
  ELSE IF x.e >= 0 THEN x
  ELSE Dy(Sign(x.m) * (Abs(x.m) \div Pow2(-x.e)), 0)

\* f64::fract: self - self.trunc()
FractStd(x) == FSub(x, Trunc(x))

\* libm::modf(x).0: NaN for NaN, a zero for an infinity, else x - trunc(x)
ModfFrac(x) ==
  IF IsNaN(x) THEN NaN
  ELSE IF IsInf(x) THEN Zero
  ELSE FSub(x, Trunc(x))

\* `x as i32` for an f64 x: NaN is 0, out-of-range values saturate
AsI32(x) ==
  IF IsNaN(x) THEN 0
  ELSE IF IsInf(x) THEN (IF x.s > 0 THEN I32Max ELSE I32Min)
  ELSE LET i == Trunc(x)
       IN  IF i.e = 0 THEN i.m
           ELSE IF i.e >= 31 THEN (IF i.m > 0 THEN I32Max ELSE I32Min)
           ELSE IF i.m >= Pow2(31 - i.e) THEN I32Max
           ELSE IF -i.m >= Pow2(31 - i.e) THEN I32Min
           ELSE i.m * Pow2(i.e)

\* (-1f64).powi(n)
PowiNeg1(n) == IF n % 2 = 0 THEN One ELSE MinusOne

\* libm::pow(-1.0, y)
PowNeg1(y) ==
  IF IsNaN(y) THEN NaN
  ELSE IF IsInf(y) THEN One
  ELSE IF y.e < 0 THEN NaN
  ELSE IF y.e > 0 \/ y.m % 2 = 0 THEN One
  ELSE MinusOne

(***************************************************************************)
(* Backend selection: the #[cfg(...)] attributes                           *)
(***************************************************************************)
Features == {"std", "libm"}

\* #[cfg(feature = "std")] fn frac
CfgFracStd(F) == "std" \in F

\* #[cfg(all(not(feature = "std"), feature = "libm"))] fn frac
CfgFracLibm(F) == "std" \notin F /\ "libm" \in F

\* #[cfg(all(not(feature = "libm"), feature = "std"))] fn _sine
CfgSineStd(F) == "libm" \notin F /\ "std" \in F

\* #[cfg(feature = "libm")] fn _sine
CfgSineLibm(F) == "libm" \in F

\* #[cfg(all(not(feature = "libm"), feature = "std"))] fn _square
CfgSquareStd(F) == "libm" \notin F /\ "std" \in F

\* #[cfg(feature = "libm")] fn _square
CfgSquareLibm(F) == "libm" \in F

\* The implementations of a primitive that a build with features F compiles in
Selected(F, prim) ==
  CASE prim = "frac" ->
         {b \in Features : (b = "std" /\ CfgFracStd(F)) \/ (b = "libm" /\ CfgFracLibm(F))}
    [] prim = "sin" ->
         {b \in Features : (b = "std" /\ CfgSineStd(F)) \/ (b = "libm" /\ CfgSineLibm(F))}
    [] prim \in {"floor", "pow"} ->
         {b \in Features : (b = "std" /\ CfgSquareStd(F)) \/ (b = "libm" /\ CfgSquareLibm(F))}

Primitives == {"frac", "sin", "floor", "pow"}

\* A build compiles when frac, _sine and _square each have exactly one definition
Compiles(F) == \A prim \in Primitives : Cardinality(Selected(F, prim)) = 1

Configs == {F \in SUBSET Features : Compiles(F)}

(***************************************************************************)
(* The closures' bodies                                                    *)
(***************************************************************************)
frac(F, x) == IF CfgFracStd(F) THEN FractStd(x) ELSE ModfFrac(x)

\* sin of an angle given in turns (radians / 2*PI), on the grid of eighths of
\* a turn; an angle between two grid points takes the value at the one below,
\* and sqrt(2)/2 is taken as 181/256.
Sin(turns) ==
  IF ~IsFin(turns) THEN NaN
  ELSE LET r == FSub(turns, Floor(turns))
           i == AsI32(Floor(FMul(Dy(8, 0), r)))
       IN  CASE i \in {0, 4} -> Zero
             [] i \in {1, 3} -> Dy(181, -8)
             [] i = 2 -> One
             [] i \in {5, 7} -> Dy(-181, -8)
             [] i = 6 -> MinusOne

\* A closure that returns its argument instead of its capture
DcBiasCallEcho(bias, t) == t

\* move |_| bias
DcBiasCall(bias, t) == bias

\* A ramp that never resets: the fractional part is not taken
SawtoothCallNoFrac(F, frequency, amplitude, phase, t) ==
  FSub(FMul(FMul(Two, amplitude), FAdd(FMul(t, frequency), phase)), amplitude)

\* move |t| 2.0 * amplitude * frac(t * frequency + phase) - amplitude
SawtoothCall(F, frequency, amplitude, phase, t) ==
  FSub(FMul(FMul(Two, amplitude), frac(F, FAdd(FMul(t, frequency), phase))), amplitude)

\* (2.0 * PI * frequency * t) + (phase * 2.0 * PI), in turns
Radians(frequency, phase, t) == FAdd(FMul(frequency, t), phase)

\* _sine, std: radians.sin() * amplitude
SineStdCall(frequency, amplitude, phase, t) ==
  LET radians == Radians(frequency, phase, t)
      sine == Sin(radians)
  IN  FMul(sine, amplitude)

\* _sine, libm: sin(...) * amplitude
SineLibmCall(frequency, amplitude, phase, t) ==
  FMul(Sin(Radians(frequency, phase, t)), amplitude)

\* _square, std: amplitude * (-1f64).powi((2.0 * (t - phase) * frequency).floor() as i32)
SquareStdCall(frequency, amplitude, phase, t) ==
  LET power == AsI32(Floor(FMul(FMul(Two, FSub(t, phase)), frequency)))
  IN  FMul(amplitude, PowiNeg1(power))

\* _square, libm: amplitude * pow(-1.0, floor(2.0 * (t - phase) * frequency))
SquareLibmCall(frequency, amplitude, phase, t) ==
  FMul(amplitude, PowNeg1(Floor(FMul(FMul(Two, FSub(t, phase)), frequency))))

\* The caller's functions handed to custom: |t| t % 2.0 and |t| -t
CustomFns == {"mod2", "negate"}

ApplyCustom(f, t) ==
  CASE f = "mod2" ->
         IF ~IsFin(t) THEN NaN ELSE FSub(t, FMul(Two, Trunc(FMul(t, Half))))
    [] f = "negate" -> FNeg(t)

\* Calling a PeriodicFunction built under features F
Invoke(F, fn, t) ==
  CASE fn.family = "custom" -> ApplyCustom(fn.f, t)
    [] fn.family = "dc_bias" -> DcBiasCall(fn.bias, t)
    [] fn.family = "sawtooth" ->
         SawtoothCall(F, fn.frequency, fn.amplitude, fn.phase, t)
    [] fn.family = "sine" ->
         IF CfgSineStd(F)
         THEN SineStdCall(fn.frequency, fn.amplitude, fn.phase, t)
         ELSE SineLibmCall(fn.frequency, fn.amplitude, fn.phase, t)
    [] fn.family = "square" ->
         IF CfgSquareStd(F)
         THEN SquareStdCall(fn.frequency, fn.amplitude, fn.phase, t)
         ELSE SquareLibmCall(fn.frequency, fn.amplitude, fn.phase, t)

\* The math backend whose code a call of fn runs, per primitive it uses
Backends(F, fn) ==
  CASE fn.family = "sawtooth" ->
         {<<"frac", IF CfgFracStd(F) THEN "std" ELSE "libm">>}
    [] fn.family = "sine" ->
         {<<"sin", IF CfgSineStd(F) THEN "std" ELSE "libm">>}
    [] fn.family = "square" ->
         {<<"floor", IF CfgSquareStd(F) THEN "std" ELSE "libm">>,
          <<"pow", IF CfgSquareStd(F) THEN "std" ELSE "libm">>}
    [] OTHER -> {}

(***************************************************************************)
(* Builders: each captures its parameters by value                         *)
(***************************************************************************)
custom(f) == [family |-> "custom", f |-> f]

dc_bias(bias) == [family |-> "dc_bias", bias |-> bias]

sawtooth(frequency, amplitude, phase) ==
  [family |-> "sawtooth", frequency |-> frequency,
   amplitude |-> amplitude, phase |-> phase]

sine(frequency, amplitude, phase) ==
  [family |-> "sine", frequency |-> frequency,
   amplitude |-> amplitude, phase |-> phase]

square(frequency, amplitude, phase) ==
  [family |-> "square", frequency |-> frequency,
   amplitude |-> amplitude, phase |-> phase]

Builder(family, frequency, amplitude, phase) ==
  CASE family = "sawtooth" -> sawtooth(frequency, amplitude, phase)
    [] family = "sine" -> sine(frequency, amplitude, phase)
    [] family = "square" -> square(frequency, amplitude, phase)

(***************************************************************************)
(* Builder macros.  A macro argument is an integer or an f64 literal; the  *)
(* last arm casts each with `as f64`.                                      *)
(***************************************************************************)
IntLit(n) == [ty |-> "i32", v |-> n]

F64Lit(x) == [ty |-> "f64", v |-> x]

AsF64(expr) == IF expr.ty = "i32" THEN Dy(expr.v, 0) ELSE expr.v

dc_bias_macro(bias) == dc_bias(AsF64(bias))

RECURSIVE sawtooth_macro(_, _)
sawtooth_macro(named, args) ==
  CASE ~named /\ Len(args) = 1 ->
         sawtooth_macro(FALSE, <<args[1], F64Lit(One), F64Lit(Zero)>>)
    [] named /\ Len(args) = 1 ->
         sawtooth_macro(FALSE, <<args[1]>>)
    [] ~named /\ Len(args) = 2 ->
         sawtooth_macro(FALSE, <<args[1], args[2], F64Lit(Zero)>>)
    [] named /\ Len(args) = 2 ->
         sawtooth_macro(FALSE, <<args[1], args[2]>>)
    [] named /\ Len(args) = 3 ->
         sawtooth_macro(FALSE, <<args[1], args[2], F64Lit(Zero)>>)
    [] ~named /\ Len(args) = 3 ->
         sawtooth(AsF64(args[1]), AsF64(args[2]), AsF64(args[3]))

RECURSIVE sine_macro(_, _)
sine_macro(named, args) ==
  CASE named /\ Len(args) = 1 ->
         sine_macro(FALSE, <<args[1]>>)
    [] named /\ Len(args) = 2 ->
         sine_macro(FALSE, <<args[1], args[2]>>)
    [] named /\ Len(args) = 3 ->
         sine_macro(FALSE, <<args[1], args[2], args[3]>>)
    [] ~named /\ Len(args) = 1 ->
         sine_macro(FALSE, <<args[1], F64Lit(One), F64Lit(Zero)>>)
    [] ~named /\ Len(args) = 2 ->
         sine_macro(FALSE, <<args[1], args[2], F64Lit(Zero)>>)
    [] ~named /\ Len(args) = 3 ->
         sine(AsF64(args[1]), AsF64(args[2]), AsF64(args[3]))

RECURSIVE square_macro(_, _)
square_macro(named, args) ==
  CASE named /\ Len(args) = 1 ->
         square_macro(FALSE, <<args[1]>>)
    [] named /\ Len(args) = 2 ->
         square_macro(FALSE, <<args[1], args[2]>>)
    [] named /\ Len(args) = 3 ->
         square_macro(FALSE, <<args[1], args[2], F64Lit(Zero)>>)
    [] ~named /\ Len(args) = 1 ->
         square_macro(FALSE, <<args[1], F64Lit(One), F64Lit(Zero)>>)
    [] ~named /\ Len(args) = 2 ->
         square_macro(FALSE, <<args[1], args[2], F64Lit(Zero)>>)
    [] ~named /\ Len(args) = 3 ->
         square(AsF64(args[1]), AsF64(args[2]), AsF64(args[3]))

Macro(family, named, args) ==
  CASE family = "sawtooth" -> sawtooth_macro(named, args)
    [] family = "sine" -> sine_macro(named, args)
    [] family = "square" -> square_macro(named, args)

(***************************************************************************)
(* Inputs                                                                  *)
(***************************************************************************)
\* The grid is in units of 2^-GridBits
GridBits == 2

\* Times and phases run over -MaxNum .. MaxNum grid units
MaxNum == 6

\* Frequencies run over -2 .. MaxFreq halves
MaxFreq == 4

\* Amplitudes and biases run over -1 .. MaxAmp
MaxAmp == 2

\* A time of magnitude 2^HugeExp, beyond the i32 range and beyond 2^53
HugeExp == 60

\* How many functions the concurrent program constructs
MaxFns == 2

Grid == {Dy(n, -GridBits) : n \in -MaxNum..MaxNum}

\* The grid, a time just below 0.5 (0.5 - 2^-10), +-2^HugeExp and the specials
Times == Grid \cup {Dy(511, -10), Dy(1, HugeExp), Dy(-1, HugeExp), NaN, PosInf, NegInf}

Freqs == {Dy(n, -1) : n \in -2..MaxFreq} \cup {NaN}

Amps == {Dy(n, 0) : n \in -1..MaxAmp}

Phases == Grid \cup {NaN}

\* The arguments written in macro invocations
MacroFreqs == {IntLit(1), IntLit(2), F64Lit(Half)}

MacroAmps == {IntLit(1), F64Lit(Two)}

MacroPhases == {IntLit(0), IntLit(1), F64Lit(Quarter), F64Lit(Half)}

Families == {"sawtooth", "sine", "square"}

\* The inputs of the single-function program
PureDom ==
  [max |-> 1, F |-> Freqs, A |-> Amps, P |-> Phases, B |-> Amps \cup {NaN, PosInf},
   C |-> CustomFns, T |-> Times]

\* The inputs of the concurrent program
ConcDom ==
  [max |-> MaxFns, F |-> {One}, A |-> {Two}, P |-> {Zero, Quarter}, B |-> {One},
   C |-> {"mod2"}, T |-> {Zero, Quarter, Dy(-3, -2), NaN}]

Evaluators == {"e1", "e2"}

(***************************************************************************)
(* The program: functions are constructed, then invoked by evaluators      *)
(***************************************************************************)
NoRet == [has |-> FALSE]

InitWith(E) ==
  /\ features \in Configs
  /\ fns = <<>>
  /\ origin = <<>>
  /\ pc = [e \in E |-> "idle"]
  /\ call = [e \in E |-> [fn |-> 0, t |-> Zero]]
  /\ ret = [e \in E |-> NoRet]

\* A new PeriodicFunction now held by the caller; origin records the call
Push(fn, how) ==
  /\ fns' = Append(fns, fn)
  /\ origin' = Append(origin, how)
  /\ UNCHANGED <<features, pc, call, ret>>

CallCustom(D) ==
  /\ Len(fns) < D.max
  /\ \E f \in D.C :
       Push(custom(f), [via |-> "builder", family |-> "custom", args |-> <<f>>])

CallDcBias(D) ==
  /\ Len(fns) < D.max
  /\ \E b \in D.B :
       Push(dc_bias(b), [via |-> "builder", family |-> "dc_bias", args |-> <<b>>])

CallSawtooth(D) ==
  /\ Len(fns) < D.max
  /\ \E f \in D.F, a \in D.A, p \in D.P :
       Push(sawtooth(f, a, p),
            [via |-> "builder", family |-> "sawtooth", args |-> <<f, a, p>>])

CallSine(D) ==
  /\ Len(fns) < D.max
  /\ \E f \in D.F, a \in D.A, p \in D.P :
       Push(sine(f, a, p),
            [via |-> "builder", family |-> "sine", args |-> <<f, a, p>>])

CallSquare(D) ==
  /\ Len(fns) < D.max
  /\ \E f \in D.F, a \in D.A, p \in D.P :
       Push(square(f, a, p),
            [via |-> "builder", family |-> "square", args |-> <<f, a, p>>])

MacroArgs ==
  {<<f>> : f \in MacroFreqs}
    \cup {<<f, a>> : f \in MacroFreqs, a \in MacroAmps}
    \cup {<<f, a, p>> : f \in MacroFreqs, a \in MacroAmps, p \in MacroPhases}

InvokeDcBiasMacro(D) ==
  /\ Len(fns) < D.max
  /\ \E b \in MacroAmps :
       Push(dc_bias_macro(b),
            [via |-> "macro", family |-> "dc_bias", named |-> FALSE, args |-> <<b>>])

InvokeMacro(D) ==
  /\ Len(fns) < D.max
  /\ \E family \in Families, named \in BOOLEAN, args \in MacroArgs :
       Push(Macro(family, named, args),
            [via |-> "macro", family |-> family, named |-> named, args |-> args])

\* An evaluator starts a call of a function it shares, with some time; ret[e]
\* holds the value of e's last completed call, and nothing while e is calling
Call(e, D) ==
  /\ pc[e] = "idle"
  /\ \E i \in 1..Len(fns), t \in D.T :
       call' = [call EXCEPT ![e] = [fn |-> i, t |-> t]]
  /\ pc' = [pc EXCEPT ![e] = "called"]
  /\ ret' = [ret EXCEPT ![e] = NoRet]
  /\ UNCHANGED <<features, fns, origin>>

\* A closure with hidden state: each call also rescales what it captured
ReturnDrift(e) ==
  /\ pc[e] = "called"
  /\ ret' = [ret EXCEPT ![e] =
               [has |-> TRUE, fn |-> call[e].fn, t |-> call[e].t,
                val |-> Invoke(features, fns[call[e].fn], call[e].t),
                backends |-> Backends(features, fns[call[e].fn])]]
  /\ fns' = [fns EXCEPT ![call[e].fn] =
               IF @.family \in Families THEN [@ EXCEPT !.amplitude = FMul(Two, @)]
               ELSE IF @.family = "dc_bias" THEN [@ EXCEPT !.bias = FAdd(@, One)]
               ELSE [@ EXCEPT !.f = "negate"]]
  /\ pc' = [pc EXCEPT ![e] = "idle"]
  /\ UNCHANGED <<features, origin, call>>

\* The closure's body runs: it reads its captures and the time, writes nothing
Return(e) ==
  /\ pc[e] = "called"
  /\ ret' = [ret EXCEPT ![e] =
               [has |-> TRUE, fn |-> call[e].fn, t |-> call[e].t,
                val |-> Invoke(features, fns[call[e].fn], call[e].t),
                backends |-> Backends(features, fns[call[e].fn])]]
  /\ pc' = [pc EXCEPT ![e] = "idle"]
  /\ UNCHANGED <<features, fns, origin, call>>

Init == InitWith(Evaluators)

Next ==
  \/ CallCustom(ConcDom)
  \/ CallDcBias(ConcDom)
  \/ CallSawtooth(ConcDom)
  \/ CallSine(ConcDom)
  \/ CallSquare(ConcDom)
  \/ \E e \in DOMAIN pc : Call(e, ConcDom)
  \/ \E e \in DOMAIN pc : Return(e)

Spec == Init /\ [][Next]_vars

InitPure == InitWith({"e1"})

NextPure ==
  \/ CallCustom(PureDom)
  \/ CallDcBias(PureDom)
  \/ CallSawtooth(PureDom)
  \/ CallSine(PureDom)
  \/ CallSquare(PureDom)
  \/ InvokeDcBiasMacro(PureDom)
  \/ InvokeMacro(PureDom)
  \/ \E e \in DOMAIN pc : Call(e, PureDom)
  \/ \E e \in DOMAIN pc : Return(e)

SpecPure == InitPure /\ [][NextPure]_vars

(***************************************************************************)
(* Properties                                                              *)
(***************************************************************************)
\* The evaluators that hold the value of a completed call of a function that
\* the builder `family` made
Returned(family) ==
  {e \in DOMAIN ret :
     /\ ret[e].has
     /\ origin[ret[e].fn].via = "builder"
     /\ origin[ret[e].fn].family = family}

ArgsOf(e) == origin[ret[e].fn].args

AllFinite(xs) == \A j \in 1..Len(xs) : IsFin(xs[j])

\* An integer-valued finite f64 that is even
IsEven(n) == n.e > 0 \/ n.m % 2 = 0

\* C1: the function dc_bias(b) returns b at every time, whatever the sign or
\* magnitude of the time and whatever b is.
C1_DcBiasIsConstant ==
  \A e \in Returned("dc_bias") : ret[e].val = ArgsOf(e)[1]

C1_Witness ==
  \E e \in Returned("dc_bias") :
    /\ ret[e].t = Dy(-1, HugeExp)
    /\ ArgsOf(e)[1] = Two
    /\ ret[e].val = Two

\* C2: for all finite frequency, amplitude, phase and time, square(f, a, p)(t)
\* is +a when floor(2 * (t - p) * f) is even and -a when it is odd (t - p is
\* exact for the inputs taken here: the phase is 0 or the time is on the grid).
C2_SquareFollowsParity ==
  \A e \in Returned("square") :
    LET f == ArgsOf(e)[1]
        a == ArgsOf(e)[2]
        p == ArgsOf(e)[3]
        t == ret[e].t
        n == Floor(FMul(FMul(Two, FSub(t, p)), f))
    IN  (AllFinite(<<f, a, p, t>>) /\ (p = Zero \/ t \in Grid))
          => ret[e].val = (IF IsEven(n) THEN a ELSE FNeg(a))

\* C3: with phase 0 and frequency f > 0, at a time t >= 0 the sawtooth is
\* 2*a*(t*f - k) - a with k = floor(t*f): it is -a at every period boundary
\* t*f = k, and for a > 0 it stays in [-a, +a) within the period.
C3_SawtoothResetsAtPeriodStart ==
  \A e \in Returned("sawtooth") :
    LET f == ArgsOf(e)[1]
        a == ArgsOf(e)[2]
        p == ArgsOf(e)[3]
        t == ret[e].t
        x == FMul(t, f)
        k == Floor(x)
    IN  (IsFin(f) /\ FSign(f) > 0 /\ p = Zero /\ IsFin(t) /\ FSign(t) >= 0)
          => /\ ret[e].val = FSub(FMul(FMul(Two, a), FSub(x, k)), a)
             /\ x = k => ret[e].val = FNeg(a)
             /\ FSign(a) > 0 =>
                  /\ FLe(FNeg(a), ret[e].val)
                  /\ FLe(ret[e].val, a)
                  /\ ret[e].val # a

C3_Witness ==
  \E e \in Returned("sawtooth") :
    /\ ArgsOf(e) = <<Two, One, Zero>>
    /\ ret[e].t = Half
    /\ ret[e].val = MinusOne

\* C4: for f > 0, a >= 0 and every finite phase and time, negative ones
\* included, the sawtooth's value lies in [-a, +a] and is the same one period
\* later (at every time t2 with (t2 - t) * f = 1).
C4_SawtoothInRangeAndPeriodic ==
  \A e \in Returned("sawtooth") :
    LET f == ArgsOf(e)[1]
        a == ArgsOf(e)[2]
        p == ArgsOf(e)[3]
        t == ret[e].t
    IN  (AllFinite(<<f, a, p, t>>) /\ FSign(f) > 0 /\ FSign(a) >= 0 /\ t \in Grid)
          => /\ FLe(FNeg(a), ret[e].val)
             /\ FLe(ret[e].val, a)
             /\ \A t2 \in Grid :
                  FMul(FSub(t2, t), f) = One
                    => Invoke(features, fns[ret[e].fn], t2) = ret[e].val

\* C5: a phase of 1.0 is one whole period for the square wave at every
\* frequency f > 0, integer or not: square(f, a, p + 1)(t) = square(f, a, p)(t).
C5_SquarePhaseInPeriods ==
  \A e \in Returned("square") :
    LET f == ArgsOf(e)[1]
        a == ArgsOf(e)[2]
        p == ArgsOf(e)[3]
        t == ret[e].t
    IN  (AllFinite(<<f, a, p, t>>) /\ FSign(f) > 0 /\ t \in Grid)
          => ret[e].val = Invoke(features, square(f, a, FAdd(p, One)), t)

\* C6: every macro invocation, named or positional, builds what the builder
\* builds from the same frequency, amplitude and phase, an omitted amplitude
\* being 1 and an omitted phase 0.
C6_MacrosForward ==
  \A i \in 1..Len(fns) :
    (origin[i].via = "macro" /\ origin[i].family \in Families)
      => LET args == origin[i].args
             f == AsF64(args[1])
             a == IF Len(args) >= 2 THEN AsF64(args[2]) ELSE One
             p == IF Len(args) >= 3 THEN AsF64(args[3]) ELSE Zero
         IN  fns[i] = Builder(origin[i].family, f, a, p)

\* C7: in every backend a NaN time (with finite parameters), a NaN frequency
\* or a NaN phase makes sawtooth, sine and square return NaN.
C7_NaNPropagates ==
  \A family \in Families :
    \A e \in Returned(family) :
      LET f == ArgsOf(e)[1]
          a == ArgsOf(e)[2]
          p == ArgsOf(e)[3]
          t == ret[e].t
      IN  ((IsNaN(t) /\ AllFinite(<<f, a, p>>)) \/ IsNaN(f) \/ IsNaN(p))
            => IsNaN(ret[e].val)

\* C8: the square wave's value is the one the hosted-math (std) closure
\* computes and the one the software-math (libm) closure computes: the two
\* agree at every finite frequency, amplitude, phase and time, also when
\* |2 * (t - phase) * frequency| is beyond the i32 range.
C8_SquareBackendsAgree ==
  \A e \in Returned("square") :
    LET f == ArgsOf(e)[1]
        a == ArgsOf(e)[2]
        p == ArgsOf(e)[3]
        t == ret[e].t
    IN  AllFinite(<<f, a, p, t>>)
          => /\ ret[e].val = SquareStdCall(f, a, p, t)
             /\ ret[e].val = SquareLibmCall(f, a, p, t)

\* C9: each primitive has exactly one implementation in every build, and a
\* call runs the native (std) one whenever std is enabled; the libm one runs
\* only when std is not enabled.
C9_NativePreferred ==
  \A e \in DOMAIN ret :
    ret[e].has =>
      /\ \A prim \in Primitives : Cardinality(Selected(features, prim)) = 1
      /\ \A b \in ret[e].backends :
           /\ "std" \in features => b[2] = "std"
           /\ b[2] = "libm" => "std" \notin features

\* C10: whatever the interleaving of the evaluators' calls, two completed
\* calls of one function with one time hold the same value, the value is the
\* one the function's body gives for the parameters the builder was handed
\* (the captures never change), and custom(f)(t) is f(t).
C10_StatelessAndShareable ==
  /\ \A e1, e2 \in DOMAIN ret :
       (ret[e1].has /\ ret[e2].has /\ ret[e1].fn = ret[e2].fn /\ ret[e1].t = ret[e2].t)
         => ret[e1].val = ret[e2].val
  /\ \A i \in 1..Len(fns) :
       /\ origin[i].family = "custom" => fns[i] = custom(origin[i].args[1])
       /\ origin[i].family = "dc_bias" => fns[i] = dc_bias(origin[i].args[1])
       /\ origin[i].family \in Families =>
            fns[i] = Builder(origin[i].family, origin[i].args[1],
                             origin[i].args[2], origin[i].args[3])
  /\ \A e \in Returned("custom") : ret[e].val = ApplyCustom(ArgsOf(e)[1], ret[e].t)

\* Both evaluators hold a completed call of the same sawtooth at the same
\* negative time while a second function exists
C10_Witness ==
  /\ Len(fns) = 2
  /\ ret["e1"].has
  /\ ret["e2"].has
  /\ ret["e1"].fn = ret["e2"].fn
  /\ ret["e1"].t = Dy(-3, -2)
  /\ ret["e2"].t = Dy(-3, -2)
  /\ origin[ret["e1"].fn].family = "sawtooth"

====
